---- MODULE Spec2Model ----
(***************************************************************************)
(* Verification model of the Wikipedia quiz backend: the article scraper   *)
(* (app/utils/scraper.py, duplicated in app/main.py) and the two quiz      *)
(* generators (AdvancedQuizGenerator in app/main.py, QuizGenerator in      *)
(* app/utils/quiz_generator.py).                                           *)
(*                                                                         *)
(* Python values are modelled as tagged records [t, v]; an exception that  *)
(* leaves an expression is the value Raise(name).  Text is modelled as a   *)
(* sequence of chunks, each chunk standing for a run of characters.        *)
(***************************************************************************)
EXTENDS Integers, Sequences, FiniteSets, TLC

VARIABLES
    gen,          \* which generator runs: "adv" (main.py) or "qg" (quiz_generator.py)
    pc,           \* position of the generate_quiz call
    api_key,      \* self.api_key
    article_content,
    article_title,
    prompt,       \* the prompt handed to the model
    response,     \* what the model answered (token text), kept for reference
    modelCalls,   \* number of model.generate_content invocations in this call
    modelOutcome, \* "none" | "raised" | "answered": how the model call ended
    outcome,      \* "none" | "returned" | "raised"
    result,       \* the value generate_quiz returned
    url,          \* the argument of scrape_article
    spc,          \* position of the scrape_article call
    httpRequests, \* number of session.get calls in this scrape_article call
    document,     \* the page the request brought back
    record,       \* the record scrape_article returned
    scrapeError,  \* "none", or the exception scrape_article raised
    vgen,         \* whose validation runs: "adv" or "qg"
    vpc,          \* "idle" | "once" | "twice": how often validation has run; "parsed"
                  \* after _parse_quiz_data
    vtitle,       \* the article_title handed to _validate_quiz_structure
    vinput,       \* the quiz object handed to validation
    vonce,        \* what validation (or _parse_quiz_data) made of vinput
    vtwice,       \* what validation made of vonce
    hpc,          \* position of the /api/generate_quiz handler
    quizzes,      \* the rows of the quizzes table this request has stored
    commitRaised, \* db.commit() raised during this request
    status_code   \* 0 while the request runs, then the HTTP status of its response

quizVars == <<gen, pc, api_key, article_content, article_title, prompt, response,
              modelCalls, modelOutcome, outcome, result>>

scrapeVars == <<url, spc, httpRequests, document, record, scrapeError>>

validateVars == <<vgen, vpc, vtitle, vinput, vonce, vtwice>>

handlerVars == <<hpc, quizzes, commitRaised, status_code>>

vars == <<quizVars, scrapeVars, validateVars, handlerVars>>

----------------------------------------------------------------------------
(* Python / JSON values *)

Str(p)   == [t |-> "str",   v |-> p]      \* p: sequence of text chunks
S(x)     == Str(<<x>>)

Num(d)   == [t |-> "num",   v |-> <<d>>]  \* d: the digits, as text
Null     == [t |-> "null",  v |-> <<>>]
List(s)  == [t |-> "list",  v |-> s]      \* s: sequence of values
Dict(s)  == [t |-> "dict",  v |-> s]      \* s: sequence of <<key, value>>, insertion order
Raise(e) == [t |-> "raise", v |-> <<e>>]  \* an exception of class e propagates

IsRaise(x) == x.t = "raise"

\* x if it raised, otherwise F applied to it (sequencing of statements)
Then(x, F(_)) == IF IsRaise(x) THEN x ELSE F(x)

\* try: x / except Exception as e: H(e)
Catch(x, H(_)) == IF IsRaise(x) THEN H(x) ELSE x

Min(a, b) == IF a < b THEN a ELSE b

Take(s, n) == SubSeq(s, 1, Min(Len(s), IF n < 0 THEN 0 ELSE n))

WhitespaceChunks == {"", " ", "\n"}

\* str.strip() == ""
IsBlankStr(x) == \A i \in 1..Len(x.v) : x.v[i] \in WhitespaceChunks

RECURSIVE ChunksLen(_)
ChunksLen(p) == IF p = <<>> THEN 0 ELSE Len(Head(p)) + ChunksLen(Tail(p))

\* bool(x)
Truthy(x) ==
    CASE x.t = "str"  -> ChunksLen(x.v) > 0
      [] x.t = "num"  -> x.v # <<"0">>
      [] x.t = "null" -> FALSE
      [] OTHER        -> Len(x.v) > 0

\* len(x) is defined
HasLen(x) == x.t \in {"str", "list", "dict"}

PyLen(x) == IF x.t = "str" THEN ChunksLen(x.v) ELSE Len(x.v)

KeyIndex(d, k) ==
    IF \E i \in 1..Len(d.v) : d.v[i][1] = k
    THEN CHOOSE i \in 1..Len(d.v) : d.v[i][1] = k /\ \A j \in 1..(i - 1) : d.v[j][1] # k
    ELSE 0

DictHas(d, k) == KeyIndex(d, k) # 0

DictGet(d, k) == d.v[KeyIndex(d, k)][2]

DictPut(d, k, val) ==
    IF DictHas(d, k)
    THEN Dict([d.v EXCEPT ![KeyIndex(d, k)] = <<k, val>>])
    ELSE Dict(Append(d.v, <<k, val>>))

\* `k in x` is defined (otherwise TypeError: argument is not iterable)
CanContain(x) == x.t \in {"str", "list", "dict"}

\* `k in x` for a text key k: key of a dict, element of a list, substring of a str
PyContains(x, k) ==
    CASE x.t = "dict" -> DictHas(x, k)
      [] x.t = "list" -> \E i \in 1..Len(x.v) : x.v[i].t = "str" /\ x.v[i].v = <<k>>
      [] x.t = "str"  -> \E i \in 1..Len(x.v) : x.v[i] = k
      [] OTHER        -> FALSE

\* x[k] for a text key k
PyGetItem(x, k) ==
    IF x.t = "dict"
    THEN IF DictHas(x, k) THEN DictGet(x, k) ELSE Raise("KeyError")
    ELSE Raise("TypeError")

\* x[k] = val for a text key k
PySetItem(x, k, val) ==
    IF x.t = "dict" THEN DictPut(x, k, val) ELSE Raise("TypeError")

\* `x in [c1, c2, ...]` for text constants
InTexts(x, texts) == x.t = "str" /\ \E c \in texts : x.v = <<c>>

\* what `for e in x` visits: list elements, dict keys, characters of a str
Elements(x) ==
    CASE x.t = "list" -> x.v
      [] x.t = "dict" -> [i \in 1..Len(x.v) |-> S(x.v[i][1])]
      [] x.t = "str"  -> [i \in 1..Len(SelectSeq(x.v, LAMBDA c : Len(c) > 0))
                               |-> S(SelectSeq(x.v, LAMBDA c : Len(c) > 0)[i])]
      [] OTHER        -> <<>>

----------------------------------------------------------------------------
(* A question object as the generators build it *)

Question(text, a, b, c, d, correct, explanation, difficulty) ==
    Dict(<< <<"question", text>>,
            <<"options", Dict(<< <<"A", a>>, <<"B", b>>, <<"C", c>>, <<"D", d>> >>)>>,
            <<"correct_answer", S(correct)>>,
            <<"explanation", explanation>>,
            <<"difficulty", S(difficulty)>> >>)

Quiz(questions, related_topics) ==
    Dict(<< <<"questions", List(questions)>>, <<"related_topics", List(related_topics)>> >>)

----------------------------------------------------------------------------
(* AdvancedQuizGenerator (app/main.py) *)

generate_smart_fallback_quiz(title) ==
    Quiz(<<
        Question(Str(<<"What is the primary focus or subject of the Wikipedia article about ", title, "?">>),
                 Str(<<"The main topic: ", title, " and its significance">>),
                 S("A completely unrelated scientific concept"),
                 S("Historical events from a different time period"),
                 S("Fictional stories and characters"),
                 "A",
                 Str(<<"The article specifically focuses on ", title, " and provides detailed information about it.">>),
                 "easy"),
        Question(Str(<<"What type of information would you expect to find in this Wikipedia article about ", title, "?">>),
                 S("Comprehensive facts, history, and context about the subject"),
                 S("Personal opinions and anecdotes"),
                 S("Advertising and promotional content"),
                 S("Fictional narratives and stories"),
                 "A",
                 S("Wikipedia articles provide factual, well-researched information with proper citations."),
                 "easy"),
        Question(Str(<<"How does Wikipedia ensure the accuracy of information about topics like ", title, "?">>),
                 S("Through community editing, citations, and reliable sources"),
                 S("Government verification and approval"),
                 S("Paid expert reviews only"),
                 S("Automatic computer generation"),
                 "A",
                 S("Wikipedia uses collaborative editing and requires reliable sources to maintain accuracy."),
                 "medium"),
        Question(Str(<<"Why might ", title, " be considered an important topic for a Wikipedia article?">>),
                 S("It represents significant knowledge worth documenting and sharing"),
                 S("It is trending on social media"),
                 S("It was randomly selected"),
                 S("It supports commercial interests"),
                 "A",
                 S("Wikipedia documents notable topics that have verifiable significance and reliable sources."),
                 "medium"),
        Question(Str(<<"What makes Wikipedia's coverage of ", title, " valuable for learners and researchers?">>),
                 S("It provides a comprehensive starting point with references for deeper exploration"),
                 S("It contains all possible information on the topic"),
                 S("It replaces the need for other information sources"),
                 S("It offers personalized learning paths"),
                 "A",
                 S("Wikipedia offers overviews with citations that help guide further research and learning."),
                 "hard")
      >>,
      << S(title), S("Online Encyclopedia"), S("Knowledge Base") >>)

\* lines 268-269
Adv_fix_question(q, title) ==
    LET default == Str(<<"What is a key fact about ", title, "?">>) IN
    IF ~CanContain(q) THEN Raise("TypeError")
    ELSE IF ~PyContains(q, "question") THEN PySetItem(q, "question", default)
    ELSE LET cur == PyGetItem(q, "question") IN
         IF IsRaise(cur) THEN cur
         ELSE IF cur.t # "str" THEN Raise("AttributeError")
         ELSE IF IsBlankStr(cur) THEN PySetItem(q, "question", default)
         ELSE q

\* lines 271-277
Adv_fix_options(q, title) ==
    LET default == Dict(<< <<"A", Str(<<"A key fact about ", title>>)>>,
                           <<"B", S("An incorrect alternative")>>,
                           <<"C", S("Another incorrect option")>>,
                           <<"D", S("Final incorrect option")>> >>) IN
    IF ~CanContain(q) THEN Raise("TypeError")
    ELSE IF ~PyContains(q, "options") THEN PySetItem(q, "options", default)
    ELSE LET cur == PyGetItem(q, "options") IN
         IF IsRaise(cur) THEN cur
         ELSE IF ~HasLen(cur) THEN Raise("TypeError")
         ELSE IF PyLen(cur) # 4 THEN PySetItem(q, "options", default)
         ELSE q

AnswerLetters == {"A", "B", "C", "D"}

DifficultyLevels == {"easy", "medium", "hard"}

\* variant: the correct_answer member is left as the model wrote it
Adv_keep_correct_answer(q) == q

\* lines 279-280
Adv_fix_correct_answer(q) ==
    IF ~CanContain(q) THEN Raise("TypeError")
    ELSE IF ~PyContains(q, "correct_answer") THEN PySetItem(q, "correct_answer", S("A"))
    ELSE LET cur == PyGetItem(q, "correct_answer") IN
         IF IsRaise(cur) THEN cur
         ELSE IF ~InTexts(cur, AnswerLetters) THEN PySetItem(q, "correct_answer", S("A"))
         ELSE q

\* lines 282-283
Adv_fix_explanation(q, title) ==
    LET default == Str(<<"This is correct based on the Wikipedia article about ", title, ".">>) IN
    IF ~CanContain(q) THEN Raise("TypeError")
    ELSE IF ~PyContains(q, "explanation") THEN PySetItem(q, "explanation", default)
    ELSE LET cur == PyGetItem(q, "explanation") IN
         IF IsRaise(cur) THEN cur
         ELSE IF cur.t # "str" THEN Raise("AttributeError")
         ELSE IF IsBlankStr(cur) THEN PySetItem(q, "explanation", default)
         ELSE q

\* variant: the difficulty is set from the index whatever the question holds
Adv_reset_difficulty(q, i) ==
    IF ~CanContain(q) THEN Raise("TypeError")
    ELSE PySetItem(q, "difficulty", IF i % 2 = 0 THEN S("medium") ELSE S("easy"))

\* lines 285-286; i is the 0-based index of the question
Adv_fix_difficulty(q, i) ==
    LET default == IF i % 2 = 0 THEN S("medium") ELSE S("easy") IN
    IF ~CanContain(q) THEN Raise("TypeError")
    ELSE IF ~PyContains(q, "difficulty") THEN PySetItem(q, "difficulty", default)
    ELSE LET cur == PyGetItem(q, "difficulty") IN
         IF IsRaise(cur) THEN cur
         ELSE IF ~InTexts(cur, DifficultyLevels) THEN PySetItem(q, "difficulty", default)
         ELSE q

\* the body of the loop at line 266 for one question
Adv_validate_question(q, i, title) ==
    LET s1 == Adv_fix_question(q, title)
        s2 == Then(s1, LAMBDA x : Adv_fix_options(x, title))
        s3 == Then(s2, LAMBDA x : Adv_fix_correct_answer(x))
        s4 == Then(s3, LAMBDA x : Adv_fix_explanation(x, title))
    IN  Then(s4, LAMBDA x : Adv_fix_difficulty(x, i))

RECURSIVE Adv_validate_each(_, _, _, _)
Adv_validate_each(elems, n, title, acc) ==
    IF n > Len(elems) THEN List(acc)
    ELSE LET r == Adv_validate_question(elems[n], n - 1, title) IN
         IF IsRaise(r) THEN r
         ELSE Adv_validate_each(elems, n + 1, title, Append(acc, r))

\* the loop at lines 266-286: the questions are repaired in place
Adv_validate_questions(quiz_data, title) ==
    LET qs == PyGetItem(quiz_data, "questions") IN
    IF IsRaise(qs) THEN qs
    ELSE IF ~HasLen(qs) THEN Raise("TypeError")
    ELSE LET r == Adv_validate_each(Elements(qs), 1, title, <<>>) IN
         IF IsRaise(r) THEN r
         ELSE IF qs.t = "list" THEN PySetItem(quiz_data, "questions", r)
         ELSE quiz_data

\* lines 289-290
Adv_ensure_related_topics(quiz_data, title) ==
    LET default == List(<< S(title), S("Knowledge"), S("Research") >>) IN
    IF ~CanContain(quiz_data) THEN Raise("TypeError")
    ELSE IF ~PyContains(quiz_data, "related_topics") THEN PySetItem(quiz_data, "related_topics", default)
    ELSE LET cur == PyGetItem(quiz_data, "related_topics") IN
         IF IsRaise(cur) THEN cur
         ELSE IF ~Truthy(cur) THEN PySetItem(quiz_data, "related_topics", default)
         ELSE quiz_data

validate_quiz_structure(quiz_data, title) ==
    LET d1 == IF ~CanContain(quiz_data) THEN Raise("TypeError")
              ELSE IF ~PyContains(quiz_data, "questions")
                   THEN PySetItem(quiz_data, "questions", List(<<>>))
              ELSE quiz_data
        d2 == Then(d1, LAMBDA d : Adv_validate_questions(d, title))
    IN  Then(d2, LAMBDA d : Adv_ensure_related_topics(d, title))

----------------------------------------------------------------------------
(* QuizGenerator (app/utils/quiz_generator.py) *)

create_enhanced_fallback_quiz ==
    Quiz(<<
        Question(S("What is the primary subject or topic covered in this Wikipedia article?"),
                 S("The main subject described in the article"),
                 S("A completely unrelated scientific field"),
                 S("Historical events from a different era"),
                 S("Fictional characters and stories"),
                 "A",
                 S("Wikipedia articles are organized around specific subjects and provide detailed information about them."),
                 "easy"),
        Question(S("What characteristic makes Wikipedia a unique online resource?"),
                 S("It is collaboratively edited by volunteers worldwide"),
                 S("It requires expensive subscriptions to access"),
                 S("It contains only government-approved content"),
                 S("It is written by a single expert author"),
                 "A",
                 S("Wikipedia's collaborative editing model allows continuous improvement by contributors globally."),
                 "medium"),
        Question(S("How does Wikipedia ensure the reliability of its content?"),
                 S("Through citation requirements and community review"),
                 S("By having government certification"),
                 S("Through paid professional editors only"),
                 S("By limiting edits to academic experts"),
                 "A",
                 S("Wikipedia uses citations and community monitoring to maintain content quality and accuracy."),
                 "medium"),
        Question(S("What is a key advantage of Wikipedia's open editing model?"),
                 S("Rapid updates and corrections to information"),
                 S("Limited access to prevent errors"),
                 S("Strict government oversight"),
                 S("Paid content creation only"),
                 "A",
                 S("The open editing allows quick updates when new information becomes available or errors are found."),
                 "hard"),
        Question(S("Why is Wikipedia considered a valuable starting point for research?"),
                 S("It provides overviews and references to primary sources"),
                 S("It contains all original research needed"),
                 S("It is the final authority on all topics"),
                 S("It replaces the need for other sources"),
                 "A",
                 S("Wikipedia offers comprehensive overviews and citations that can lead to more specialized sources."),
                 "easy")
      >>,
      << S("Online Encyclopedia"), S("Collaborative Knowledge"), S("Digital Education") >>)

\* lines 124-125
QG_fix_question(q) ==
    LET default == S("Question about the article content?") IN
    IF ~CanContain(q) THEN Raise("TypeError")
    ELSE IF ~PyContains(q, "question") THEN PySetItem(q, "question", default)
    ELSE LET cur == PyGetItem(q, "question") IN
         IF IsRaise(cur) THEN cur
         ELSE IF ~Truthy(cur) THEN PySetItem(q, "question", default)
         ELSE q

\* lines 127-133
QG_fix_options(q) ==
    LET default == Dict(<< <<"A", S("First option based on article")>>,
                           <<"B", S("Second option based on article")>>,
                           <<"C", S("Third option based on article")>>,
                           <<"D", S("Fourth option based on article")>> >>) IN
    IF ~CanContain(q) THEN Raise("TypeError")
    ELSE IF ~PyContains(q, "options") THEN PySetItem(q, "options", default)
    ELSE LET cur == PyGetItem(q, "options") IN
         IF IsRaise(cur) THEN cur
         ELSE IF ~HasLen(cur) THEN Raise("TypeError")
         ELSE IF PyLen(cur) # 4 THEN PySetItem(q, "options", default)
         ELSE q

\* lines 135-136
QG_fix_correct_answer(q) ==
    IF ~CanContain(q) THEN Raise("TypeError")
    ELSE IF ~PyContains(q, "correct_answer") THEN PySetItem(q, "correct_answer", S("A"))
    ELSE LET cur == PyGetItem(q, "correct_answer") IN
         IF IsRaise(cur) THEN cur
         ELSE IF ~InTexts(cur, AnswerLetters) THEN PySetItem(q, "correct_answer", S("A"))
         ELSE q

\* lines 138-139
QG_fix_explanation(q) ==
    LET default == S("This answer is correct based on the article content.") IN
    IF ~CanContain(q) THEN Raise("TypeError")
    ELSE IF ~PyContains(q, "explanation") THEN PySetItem(q, "explanation", default)
    ELSE LET cur == PyGetItem(q, "explanation") IN
         IF IsRaise(cur) THEN cur
         ELSE IF ~Truthy(cur) THEN PySetItem(q, "explanation", default)
         ELSE q

\* lines 141-142
QG_fix_difficulty(q) ==
    IF ~CanContain(q) THEN Raise("TypeError")
    ELSE IF ~PyContains(q, "difficulty") THEN PySetItem(q, "difficulty", S("medium"))
    ELSE LET cur == PyGetItem(q, "difficulty") IN
         IF IsRaise(cur) THEN cur
         ELSE IF ~InTexts(cur, DifficultyLevels) THEN PySetItem(q, "difficulty", S("medium"))
         ELSE q

\* the body of the loop at line 123 for one question
QG_validate_question(q) ==
    LET s1 == QG_fix_question(q)
        s2 == Then(s1, QG_fix_options)
        s3 == Then(s2, QG_fix_correct_answer)
        s4 == Then(s3, QG_fix_explanation)
    IN  Then(s4, QG_fix_difficulty)

RECURSIVE QG_validate_each(_, _, _)
QG_validate_each(elems, n, acc) ==
    IF n > Len(elems) THEN List(acc)
    ELSE LET r == QG_validate_question(elems[n]) IN
         IF IsRaise(r) THEN r
         ELSE QG_validate_each(elems, n + 1, Append(acc, r))

\* lines 114-115
QG_ensure_questions(quiz_data) ==
    LET fallback == PyGetItem(create_enhanced_fallback_quiz, "questions") IN
    IF ~CanContain(quiz_data) THEN Raise("TypeError")
    ELSE IF ~PyContains(quiz_data, "questions") THEN PySetItem(quiz_data, "questions", fallback)
    ELSE LET cur == PyGetItem(quiz_data, "questions") IN
         IF IsRaise(cur) THEN cur
         ELSE IF ~Truthy(cur) THEN PySetItem(quiz_data, "questions", fallback)
         ELSE quiz_data

QG_MinQuestions == 3

\* lines 118-120
QG_ensure_minimum(quiz_data) ==
    LET qs == PyGetItem(quiz_data, "questions")
        additional == PyGetItem(create_enhanced_fallback_quiz, "questions").v
    IN  IF IsRaise(qs) THEN qs
        ELSE IF ~HasLen(qs) THEN Raise("TypeError")
        ELSE IF PyLen(qs) < QG_MinQuestions
             THEN IF qs.t = "list"
                  THEN PySetItem(quiz_data, "questions",
                                 List(qs.v \o Take(additional, QG_MinQuestions - PyLen(qs))))
                  ELSE Raise("AttributeError")
        ELSE quiz_data

\* the loop at lines 123-142: the questions are repaired in place
QG_validate_questions(quiz_data) ==
    LET qs == PyGetItem(quiz_data, "questions") IN
    IF IsRaise(qs) THEN qs
    ELSE IF ~HasLen(qs) THEN Raise("TypeError")
    ELSE LET r == QG_validate_each(Elements(qs), 1, <<>>) IN
         IF IsRaise(r) THEN r
         ELSE IF qs.t = "list" THEN PySetItem(quiz_data, "questions", r)
         ELSE quiz_data

\* lines 144-145
QG_ensure_related_topics(quiz_data) ==
    LET default == List(<< S("Knowledge"), S("Education"), S("Research") >>) IN
    IF ~CanContain(quiz_data) THEN Raise("TypeError")
    ELSE IF ~PyContains(quiz_data, "related_topics") THEN PySetItem(quiz_data, "related_topics", default)
    ELSE LET cur == PyGetItem(quiz_data, "related_topics") IN
         IF IsRaise(cur) THEN cur
         ELSE IF ~Truthy(cur) THEN PySetItem(quiz_data, "related_topics", default)
         ELSE quiz_data

validate_quiz_data(quiz_data) ==
    LET d1 == QG_ensure_questions(quiz_data)
        d2 == Then(d1, QG_ensure_minimum)
        d3 == Then(d2, QG_validate_questions)
    IN  Then(d3, QG_ensure_related_topics)

----------------------------------------------------------------------------
(* Response text.  A text is a sequence of tokens [c, v]: c is the class of  *)
(* a run of characters and v its content.  Classes: "fencejson" and "fence"  *)
(* (a Markdown code fence with and without the word json), "ws" (white space), "prose" (other text without braces),  *)
(* "lbrace" "rbrace" "lbrack" "rbrack", "key" (a member name with its       *)
(* colon and the comma before it), "str" "num" "null" (JSON scalars).       *)
(* String contents hold no brace and no back-quote.                         *)

Tok(c, v) == [c |-> c, v |-> v]

LBrace == Tok("lbrace", "{")
RBrace == Tok("rbrace", "}")
LBrack == Tok("lbrack", "[")
RBrack == Tok("rbrack", "]")
Ws     == Tok("ws", "\n")
\* three back-quotes, and three back-quotes followed by json
Fence  == Tok("fence", "<fence>")
FenceJson == Tok("fencejson", "<fence>json")

RECURSIVE SkipWs(_, _)
\* the first index at or after i that holds no white space (Len + 1 if none)
SkipWs(toks, i) ==
    IF i > Len(toks) THEN i
    ELSE IF toks[i].c = "ws" THEN SkipWs(toks, i + 1)
    ELSE i

RECURSIVE SkipWsBack(_, _)
SkipWsBack(toks, i) ==
    IF i < 1 THEN i
    ELSE IF toks[i].c = "ws" THEN SkipWsBack(toks, i - 1)
    ELSE i

\* token j is part of a match of fence + r'\s*' in toks[i..]: a fence of class cls, or
\* white space with nothing but white space between it and such a fence
InFenceMatch(toks, cls, i, j) ==
    \/ toks[j].c = cls
    \/ /\ toks[j].c = "ws"
       /\ SkipWsBack(toks, j - 1) >= i
       /\ toks[SkipWsBack(toks, j - 1)].c = cls

RECURSIVE KeepOutsideFences(_, _, _, _, _)
\* the tokens of toks[lo..hi] outside every match, in their order
KeepOutsideFences(toks, cls, i, lo, hi) ==
    IF lo > hi THEN <<>>
    ELSE IF lo = hi
         THEN IF InFenceMatch(toks, cls, i, lo) THEN <<>> ELSE <<toks[lo]>>
    ELSE KeepOutsideFences(toks, cls, i, lo, (lo + hi) \div 2)
         \o KeepOutsideFences(toks, cls, i, (lo + hi) \div 2 + 1, hi)

\* re.sub(fence + r'\s*', '', text): every fence of class cls goes, with the white space after it
RemoveFences(toks, cls, i) == KeepOutsideFences(toks, cls, i, i, Len(toks))

\* text.strip()
Strip(toks) == SubSeq(toks, SkipWs(toks, 1), SkipWsBack(toks, Len(toks)))

IsBrace(tk) == tk.c \in {"lbrace", "rbrace"}

\* the first brace at or after i (0 if none): where [^{}]* stops
NextBrace(toks, i) ==
    IF \E j \in i..Len(toks) : IsBrace(toks[j])
    THEN CHOOSE j \in i..Len(toks) : IsBrace(toks[j]) /\ \A k \in i..(j - 1) : ~IsBrace(toks[k])
    ELSE 0

\* the end of a match of \{[^{}]*\{[^{}]*\}[^{}]*\} that starts at i (0 if none)
NestedMatchEnd(toks, i) ==
    IF toks[i].c # "lbrace" THEN 0
    ELSE LET j == NextBrace(toks, i + 1) IN
         IF j = 0 \/ toks[j].c # "lbrace" THEN 0
         ELSE LET k == NextBrace(toks, j + 1) IN
              IF k = 0 \/ toks[k].c # "rbrace" THEN 0
              ELSE LET l == NextBrace(toks, k + 1) IN
                   IF l = 0 \/ toks[l].c # "rbrace" THEN 0
                   ELSE l

NoMatch == <<>>

\* re.search(r'\{[^{}]*\{[^{}]*\}[^{}]*\}', text, re.DOTALL): the leftmost match
NestedBraceSearch(toks) ==
    IF \E i \in 1..Len(toks) : NestedMatchEnd(toks, i) # 0
    THEN LET i == CHOOSE i \in 1..Len(toks) :
                      /\ NestedMatchEnd(toks, i) # 0
                      /\ \A h \in 1..(i - 1) : NestedMatchEnd(toks, h) = 0
         IN  SubSeq(toks, i, NestedMatchEnd(toks, i))
    ELSE NoMatch

\* re.search(r'\{.*\}', text, re.DOTALL): from the first { to the last } after it
GreedyBraceSearch(toks) ==
    LET opens  == {i \in 1..Len(toks) : toks[i].c = "lbrace"}
        closes == {i \in 1..Len(toks) : toks[i].c = "rbrace"}
    IN  IF \E a \in opens : \E b \in closes : a < b
        THEN LET a == CHOOSE a \in opens : \A o \in opens : a <= o
                 b == CHOOSE b \in closes : \A o \in closes : o <= b
             IN  SubSeq(toks, a, b)
        ELSE NoMatch

\* AdvancedQuizGenerator._clean_ai_response, main.py lines 224-236
clean_ai_response(text) ==
    LET t1 == RemoveFences(text, "fencejson", 1)
        t2 == RemoveFences(t1, "fence", 1)
        t3 == Strip(t2)
        nested == NestedBraceSearch(t3)
        json_match == IF nested # NoMatch THEN nested ELSE GreedyBraceSearch(t3)
    IN  IF json_match # NoMatch THEN json_match ELSE t3

\* QuizGenerator._clean_response, quiz_generator.py lines 99-110
clean_response(text) ==
    LET t1 == RemoveFences(text, "fencejson", 1)
        t2 == RemoveFences(t1, "fence", 1)
        json_match == GreedyBraceSearch(t2)
    IN  IF json_match # NoMatch THEN json_match ELSE Strip(t2)

----------------------------------------------------------------------------
(* json.loads on a token text *)

ParseFail == [ok |-> FALSE, val |-> Null, next |-> 0]

ParseOk(val, next) == [ok |-> TRUE, val |-> val, next |-> next]

RECURSIVE ParseValue(_, _), ParseMembers(_, _, _), ParseItems(_, _, _)

\* the value that starts at token i, and the index after it
ParseValue(toks, i) ==
    IF i > Len(toks) THEN ParseFail
    ELSE CASE toks[i].c = "str"    -> ParseOk(S(toks[i].v), i + 1)
           [] toks[i].c = "num"    -> ParseOk(Num(toks[i].v), i + 1)
           [] toks[i].c = "null"   -> ParseOk(Null, i + 1)
           [] toks[i].c = "lbrace" -> ParseMembers(toks, i + 1, Dict(<<>>))
           [] toks[i].c = "lbrack" -> ParseItems(toks, i + 1, <<>>)
           [] OTHER                -> ParseFail

\* the members of an object up to its closing brace; a repeated name keeps the last value
ParseMembers(toks, i, acc) ==
    IF i > Len(toks) THEN ParseFail
    ELSE IF toks[i].c = "rbrace" THEN ParseOk(acc, i + 1)
    ELSE IF toks[i].c = "key"
         THEN LET r == ParseValue(toks, i + 1) IN
              IF r.ok THEN ParseMembers(toks, r.next, DictPut(acc, toks[i].v, r.val))
              ELSE ParseFail
    ELSE ParseFail

\* the items of an array up to its closing bracket
ParseItems(toks, i, acc) ==
    IF i > Len(toks) THEN ParseFail
    ELSE IF toks[i].c = "rbrack" THEN ParseOk(List(acc), i + 1)
    ELSE LET r == ParseValue(toks, i) IN
         IF r.ok THEN ParseItems(toks, r.next, Append(acc, r.val))
         ELSE ParseFail

\* json.loads(text): white space between tokens is skipped, anything after the value is an error
json_loads(text) ==
    LET toks == SelectSeq(text, LAMBDA tk : tk.c # "ws")
        r == ParseValue(toks, 1)
    IN  IF r.ok /\ r.next = Len(toks) + 1 THEN r.val ELSE Raise("JSONDecodeError")

----------------------------------------------------------------------------
(* AdvancedQuizGenerator: parsing and the generate_quiz handler *)

Adv_MinQuestions == 3

Adv_TargetQuestions == 5

ContentMinLen == 100

Adv_ContentLimit == 5000

Adv_PromptLimit == 4000

QG_ContentLimit == 6000

\* main.py lines 241-253: the body of the try block of _parse_quiz_data
Adv_parse_body(text, title) ==
    LET quiz_data == json_loads(text) IN
    IF IsRaise(quiz_data) THEN quiz_data
    ELSE IF ~CanContain(quiz_data) THEN Raise("TypeError")
    ELSE IF ~PyContains(quiz_data, "questions") THEN Raise("ValueError")
    ELSE LET qs == PyGetItem(quiz_data, "questions") IN
         IF IsRaise(qs) THEN qs
         ELSE IF ~Truthy(qs) THEN Raise("ValueError")
         ELSE IF ~HasLen(qs) THEN Raise("TypeError")
         ELSE IF PyLen(qs) < Adv_MinQuestions
              THEN IF qs.t = "list"
                   THEN LET fallback == PyGetItem(generate_smart_fallback_quiz(title), "questions").v
                            extended == List(qs.v \o Take(fallback, Adv_TargetQuestions - PyLen(qs)))
                        IN  validate_quiz_structure(PySetItem(quiz_data, "questions", extended), title)
                   ELSE Raise("AttributeError")
         ELSE validate_quiz_structure(quiz_data, title)

\* main.py lines 255-257: the except clause of _parse_quiz_data
Adv_parse_except(e, title) == generate_smart_fallback_quiz(title)

\* AdvancedQuizGenerator._parse_quiz_data, main.py lines 238-257
parse_quiz_data(text, title) ==
    Catch(Adv_parse_body(text, title), LAMBDA e : Adv_parse_except(e, title))

\* len(quiz_data['questions']) in the log line, main.py line 180
Adv_log_count(quiz_data) ==
    LET qs == PyGetItem(quiz_data, "questions") IN
    IF IsRaise(qs) THEN qs
    ELSE IF ~HasLen(qs) THEN Raise("TypeError")
    ELSE quiz_data

\* main.py lines 172-181: from the model's answer to the return statement
Adv_after_response(text, title) ==
    LET cleaned_text == clean_ai_response(text)
        quiz_data == parse_quiz_data(cleaned_text, title)
    IN  Adv_log_count(quiz_data)

\* variant: the except clause lets the exception go on to the caller
Adv_generate_reraise(e, title) == e

\* variant: the except clause answers with the other generator's fallback quiz
Adv_generate_other_fallback(e, title) == create_enhanced_fallback_quiz

\* main.py lines 183-185: the except clause of generate_quiz
Adv_generate_except(e, title) == generate_smart_fallback_quiz(title)

\* self.model is set exactly when the key is truthy, main.py lines 145-151
HasModel(key) == Truthy(key)

\* An article_content argument: None, a str (lead and trail count the white
\* space around a core that starts and ends with other characters), or an
\* object of another type.
Content(kind, lead, core, trail) == [kind |-> kind, lead |-> lead, core |-> core, trail |-> trail]

ContentLen(c) == c.lead + c.core + c.trail

\* len(article_content.strip())
StrippedLen(c) == c.core

\* variant: the length test without strip()
ContentCheck_untrimmed(c) ==
    CASE c.kind = "none" -> "short"
      [] c.kind = "str"  -> IF ContentLen(c) = 0 \/ ContentLen(c) < ContentMinLen
                            THEN "short" ELSE "ok"
      [] OTHER           -> "TypeError"

\* `not article_content or len(article_content.strip()) < 100`, main.py line 160 and
\* quiz_generator.py line 64: "short", "ok", or the exception of a value without len
ContentCheck(c) ==
    CASE c.kind = "none" -> "short"
      [] c.kind = "str"  -> IF ContentLen(c) = 0 \/ StrippedLen(c) < ContentMinLen
                            THEN "short" ELSE "ok"
      [] OTHER           -> "TypeError"

\* main.py lines 166-168 and 187-222: title and the content that reaches the prompt
Adv_create_smart_prompt(c, title) ==
    [title |-> title, content_len |-> Min(Min(ContentLen(c), Adv_ContentLimit), Adv_PromptLimit)]

NoPrompt == [title |-> "", content_len |-> 0]

\* quiz_generator.py lines 19-55 and 73: str.format meets the braces of the
\* JSON example in prompt_template and raises KeyError
QG_format_prompt(c) == Raise("KeyError")

\* quiz_generator.py lines 95-97: the except clause of generate_quiz
QG_generate_except(e) == create_enhanced_fallback_quiz

\* quiz_generator.py lines 77-93: from the model's answer to the return statement
QG_after_response(text) ==
    LET quiz_text == clean_response(text)
        parsed == json_loads(quiz_text)
        \* line 87: quiz_data.get('questions', []) and its len, inside the inner try
        logged == IF IsRaise(parsed) THEN parsed
                  ELSE IF parsed.t # "dict" THEN Raise("AttributeError")
                  ELSE IF DictHas(parsed, "questions") /\ ~HasLen(DictGet(parsed, "questions"))
                       THEN Raise("TypeError")
                  ELSE parsed
        \* lines 88-91: only a JSONDecodeError is replaced by the fallback quiz
        quiz_data == IF IsRaise(logged) /\ logged = Raise("JSONDecodeError")
                     THEN create_enhanced_fallback_quiz
                     ELSE logged
    IN  Then(quiz_data, validate_quiz_data)

----------------------------------------------------------------------------
(* What the model may answer *)

MaxQuestions == 3

DictDel(d, k) == Dict(SelectSeq(d.v, LAMBDA kv : kv[1] # k))

RECURSIVE Render(_), RenderItems(_, _), RenderMembers(_, _)

\* the JSON text of a value, as the model would write it
Render(x) ==
    CASE x.t = "str"  -> <<Tok("str", x.v[1])>>
      [] x.t = "num"  -> <<Tok("num", x.v[1])>>
      [] x.t = "null" -> <<Tok("null", "null")>>
      [] x.t = "list" -> <<LBrack>> \o RenderItems(x.v, 1) \o <<RBrack>>
      [] x.t = "dict" -> <<LBrace>> \o RenderMembers(x.v, 1) \o <<RBrace>>

RenderItems(s, i) ==
    IF i > Len(s) THEN <<>> ELSE Render(s[i]) \o RenderItems(s, i + 1)

RenderMembers(s, i) ==
    IF i > Len(s) THEN <<>>
    ELSE <<Tok("key", s[i][1])>> \o Render(s[i][2]) \o RenderMembers(s, i + 1)

\* two well-formed questions a model may write
W1 == Question(S("Q1"), S("a1"), S("b1"), S("c1"), S("d1"), "B", S("E1"), "hard")

W2 == Question(S("Q2"), S("a2"), S("b2"), S("c2"), S("d2"), "C", S("E2"), "easy")

WellFormed == {W1, W2}

\* the same questions written without an options object
F1 == DictDel(W1, "options")

F2 == DictDel(W2, "options")

Flat == {F1, F2}

\* q with a second nested object beside its options
WithSource(q) == DictPut(q, "source", Dict(<< <<"section", S("History")>> >>))

\* four-entry and other options values that are no A-D mapping of non-empty strings
OptionsObjects ==
    { Dict(<< <<"1", S("a")>>, <<"2", S("b")>>, <<"3", S("c")>>, <<"4", S("d")>> >>),
      Dict(<< <<"A", S("a")>>, <<"B", S("b")>>, <<"C", S("c")>> >>),
      Dict(<< <<"A", S("")>>, <<"B", S("")>>, <<"C", S("")>>, <<"D", S("")>> >>),
      Dict(<< <<"A", Num("1")>>, <<"B", Num("2")>>, <<"C", Num("3")>>, <<"D", Num("4")>> >>) }

OptionsOthers == { List(<< S("a"), S("b"), S("c"), S("d") >>), S("abcd"), Num("4"), Null }

\* questions with one field missing or malformed, and elements that are no objects
ProbeQuestions ==
    {DictDel(F1, k) : k \in {"question", "correct_answer", "explanation", "difficulty"}}
    \cup {DictPut(F1, "question", x) : x \in {S(""), S(" "), Num("5"), Null}}
    \cup {DictPut(F1, "options", x) : x \in OptionsOthers}
    \cup {DictPut(W1, "options", x) : x \in OptionsObjects}
    \cup {WithSource(DictPut(W1, "options", x)) : x \in OptionsObjects}
    \cup {W1, WithSource(W1)}
    \cup {DictPut(F1, "correct_answer", x) : x \in {S("E"), S("a"), Num("1"), Null, List(<< S("A") >>)}}
    \cup {DictPut(F1, "explanation", x) : x \in {S(""), S(" "), Num("5"), Null}}
    \cup {DictPut(F1, "difficulty", x) : x \in {S("extreme"), S("Easy"), Num("1"), Null}}
    \cup {Dict(<<>>), S("question"), Num("7"), Null, List(<<>>), List(<< S("question") >>)}

\* question lists of well-formed questions
BaseLists == UNION {[1..n -> WellFormed] : n \in 0..MaxQuestions}

\* question lists of questions without options objects
FlatLists == UNION {[1..n -> Flat] : n \in 0..MaxQuestions}

\* question lists with one probe among questions without options objects
ProbeLists ==
    UNION {{[b EXCEPT ![p] = q] : p \in DOMAIN b, q \in ProbeQuestions} : b \in FlatLists}

Absent == [t |-> "absent", v |-> <<>>]

TopicValues ==
    { Absent, Null, List(<<>>), List(<< S("Topic1") >>), List(<< S("Topic1"), S("Topic2") >>),
      S("Topic1"), S(""), Num("7"), Num("0"), Dict(<< <<"a", S("Topic1")>> >>) }

\* an object with the given questions and related_topics members (Absent: no member)
ModelQuiz(qs, rt) ==
    Dict((IF qs = Absent THEN <<>> ELSE << <<"questions", qs>> >>)
         \o (IF rt = Absent THEN <<>> ELSE << <<"related_topics", rt>> >>))

DefaultTopics == List(<< S("Topic1") >>)

ModelValues ==
    {ModelQuiz(List(l), rt) : l \in BaseLists \cup FlatLists, rt \in TopicValues}
    \cup {ModelQuiz(List(l), DefaultTopics) : l \in ProbeLists}
    \cup {ModelQuiz(qs, DefaultTopics) : qs \in
            { Absent, Null, Num("3"), Num("0"), S("abc"), S(""), Dict(<<>>),
              Dict(<< <<"first", W1>> >>),
              Dict(<< <<"a", W1>>, <<"b", W1>>, <<"c", W2>> >>) }}
    \cup { List(<<>>), List(<< S("questions") >>), List(<< W1, W2, W1 >>),
           S("questions"), S("hello"), Num("1"), Null, Dict(<<>>), W1 }

WrapStyles == {"bare", "fencejson", "fence", "prose"}

\* the model's text around its JSON
Wrap(style, toks) ==
    CASE style = "bare"      -> toks
      [] style = "fencejson" -> <<FenceJson, Ws>> \o toks \o <<Ws, Fence>>
      [] style = "fence"     -> <<Fence, Ws>> \o toks \o <<Ws, Fence>>
      [] style = "prose"     -> <<Tok("prose", "Here is the quiz:"), Ws>> \o toks
                                \o <<Ws, Tok("prose", "Good luck!")>>

\* texts that hold no JSON value
GarbageTexts ==
    { <<>>, <<Ws>>, <<Tok("prose", "I cannot help with that.")>>,
      <<LBrace>>, <<RBrace, LBrace>>, <<LBrace, RBrace, RBrace>>,
      <<LBrace, Tok("key", "questions"), LBrack, LBrace>>,
      <<LBrace, Tok("prose", "questions"), RBrace>>,
      Render(ModelQuiz(List(<<W1, W2, W1>>), DefaultTopics)) \o Render(W2) }

ResponseTexts ==
    {Wrap(style, Render(x)) : style \in WrapStyles, x \in ModelValues} \cup GarbageTexts

ApiKeys == {Null, S(""), S("AIza-key")}

Titles == {"", "Python"}

Contents ==
    { Content("none", 0, 0, 0), Content("int", 0, 0, 0),
      Content("str", 0, 0, 0), Content("str", 5, 0, 0),
      Content("str", 0, ContentMinLen - 1, 0),
      Content("str", ContentMinLen, ContentMinLen - 1, ContentMinLen),
      Content("str", 0, ContentMinLen, 0),
      Content("str", 2, Adv_ContentLimit + ContentMinLen, 2) }

----------------------------------------------------------------------------
(* The generate_quiz calls *)

QuizInit ==
    /\ gen = "none"
    /\ pc = "idle"
    /\ api_key = Null
    /\ article_content = Content("none", 0, 0, 0)
    /\ article_title = ""
    /\ prompt = NoPrompt
    /\ response = <<>>
    /\ modelCalls = 0
    /\ modelOutcome = "none"
    /\ outcome = "none"
    /\ result = Null

\* the call ends: it returns r, or r propagates to the caller
Finish(r) ==
    /\ pc' = "done"
    /\ outcome' = IF IsRaise(r) THEN "raised" ELSE "returned"
    /\ result' = r

\* generate_quiz(c, title) of a generator whose credential is key, up to the
\* model call, main.py lines 153-171
Adv_Invoke(key, c, title) ==
    /\ pc = "idle"
    /\ gen' = "adv"
    /\ api_key' = key
    /\ article_content' = c
    /\ article_title' = title
    /\ UNCHANGED <<response, modelOutcome, scrapeVars, validateVars>>
    /\ IF ~Truthy(key) \/ ~HasModel(key)
       THEN /\ Finish(generate_smart_fallback_quiz(title))
            /\ UNCHANGED <<prompt, modelCalls>>
       ELSE IF ContentCheck(c) # "ok"
       THEN /\ Finish(Adv_generate_except(Raise("ValueError"), title))
            /\ UNCHANGED <<prompt, modelCalls>>
       ELSE /\ prompt' = Adv_create_smart_prompt(c, title)
            /\ modelCalls' = modelCalls + 1
            /\ pc' = "model"
            /\ UNCHANGED <<outcome, result>>

\* AdvancedQuizGenerator.generate_quiz up to the model call, main.py lines 153-171
Adv_Call ==
    \E key \in ApiKeys, c \in Contents, title \in Titles :
        Adv_Invoke(key, c, title) /\ UNCHANGED handlerVars

\* self.model.generate_content raises, main.py lines 171 and 183-185
Adv_ModelRaises ==
    /\ pc = "model"
    /\ gen = "adv"
    /\ modelOutcome' = "raised"
    /\ Finish(Adv_generate_except(Raise("TransportError"), article_title))
    /\ UNCHANGED <<gen, api_key, article_content, article_title, prompt, response, modelCalls>>
    /\ UNCHANGED <<scrapeVars, validateVars, handlerVars>>

\* self.model.generate_content answers text, main.py lines 171-185
Adv_Answered(text) ==
    /\ pc = "model"
    /\ gen = "adv"
    /\ response' = text
    /\ modelOutcome' = "answered"
    /\ Finish(Catch(Adv_after_response(text, article_title),
                    LAMBDA e : Adv_generate_except(e, article_title)))
    /\ UNCHANGED <<gen, api_key, article_content, article_title, prompt, modelCalls>>
    /\ UNCHANGED <<scrapeVars, validateVars, handlerVars>>

\* self.model.generate_content answers, main.py lines 171-185
Adv_ModelResponds == \E text \in ResponseTexts : Adv_Answered(text)

\* QuizGenerator.generate_quiz, quiz_generator.py lines 57-97
QG_Call ==
    \E key \in ApiKeys, c \in Contents :
        /\ pc = "idle"
        /\ gen' = "qg"
        /\ api_key' = key
        /\ article_content' = c
        /\ UNCHANGED <<article_title, prompt, response, modelOutcome, scrapeVars, validateVars,
                       handlerVars>>
        /\ IF ~Truthy(key)
           THEN /\ Finish(create_enhanced_fallback_quiz)
                /\ UNCHANGED modelCalls
           ELSE IF ContentCheck(c) # "ok"
           THEN /\ Finish(QG_generate_except(Raise("ValueError")))
                /\ UNCHANGED modelCalls
           ELSE IF IsRaise(QG_format_prompt(c))
           THEN /\ Finish(QG_generate_except(QG_format_prompt(c)))
                /\ UNCHANGED modelCalls
           ELSE /\ modelCalls' = modelCalls + 1
                /\ pc' = "model"
                /\ UNCHANGED <<outcome, result>>


----------------------------------------------------------------------------
(* Properties of generate_quiz *)

Returned == pc = "done" /\ outcome = "returned"

\* the questions member of the returned quiz
ResultQuestions ==
    IF result.t = "dict" /\ DictHas(result, "questions") THEN DictGet(result, "questions") ELSE Null

\* the related_topics member of the returned quiz
ResultTopics ==
    IF result.t = "dict" /\ DictHas(result, "related_topics")
    THEN DictGet(result, "related_topics") ELSE Null

\* the fallback quiz of the generator that runs
FallbackQuiz ==
    IF gen = "adv" THEN generate_smart_fallback_quiz(article_title)
    ELSE create_enhanced_fallback_quiz

\* C1: every generate_quiz call of either generator ends by returning a quiz
\* object and never by an exception that reaches the caller, whatever the
\* content, the title, the credential and the behaviour of the model.
C1_NeverRaises ==
    pc = "done" => /\ outcome = "returned"
                   /\ result.t = "dict"
                   /\ DictHas(result, "questions")

\* C1 case: the model answered text that holds no JSON value and the call returned
C1_GarbageAnswered ==
    /\ Returned
    /\ gen = "adv"
    /\ modelOutcome = "answered"
    /\ response = <<Tok("prose", "I cannot help with that.")>>

\* C2: the returned quiz has at least 3 questions and at least 1 related topic.
C2_MinimumSizes ==
    Returned => /\ ResultQuestions.t = "list"
                /\ Len(ResultQuestions.v) >= 3
                /\ HasLen(ResultTopics)
                /\ PyLen(ResultTopics) >= 1

\* an options value that maps exactly A, B, C, D to non-empty strings
IsOptionsMapping(o) ==
    /\ o.t = "dict"
    /\ Len(o.v) = 4
    /\ {o.v[j][1] : j \in 1..Len(o.v)} = AnswerLetters
    /\ \A j \in 1..Len(o.v) : o.v[j][2].t = "str" /\ PyLen(o.v[j][2]) > 0

\* C3: every question of the returned quiz has an options mapping with exactly
\* the keys A, B, C, D and four non-empty strings as values.
C3_OptionsMapping ==
    Returned =>
        /\ ResultQuestions.t = "list"
        /\ \A i \in 1..Len(ResultQuestions.v) :
              LET q == ResultQuestions.v[i] IN
              /\ q.t = "dict"
              /\ DictHas(q, "options")
              /\ IsOptionsMapping(DictGet(q, "options"))

\* the questions of the JSON value the model's answer is parsed to
AnsweredQuestions ==
    LET m == json_loads(clean_ai_response(response)) IN
    IF modelOutcome = "answered" /\ m.t = "dict" /\ DictHas(m, "questions")
       /\ DictGet(m, "questions").t = "list"
    THEN DictGet(m, "questions").v ELSE <<>>

IsAnswerLetter(x) == x.t = "str" /\ \E l \in AnswerLetters : x = S(l)

IsDifficultyLevel(x) == x.t = "str" /\ \E l \in DifficultyLevels : x = S(l)

\* C4: every question of the returned quiz has correct_answer in {A, B, C, D}
\* and difficulty in {easy, medium, hard}; where the model's question had no
\* correct_answer or one outside A-D, the returned question has "A".
C4_AnswerAndDifficulty ==
    Returned =>
        /\ ResultQuestions.t = "list"
        /\ \A i \in 1..Len(ResultQuestions.v) :
              LET q == ResultQuestions.v[i] IN
              /\ q.t = "dict"
              /\ DictHas(q, "correct_answer") /\ IsAnswerLetter(DictGet(q, "correct_answer"))
              /\ DictHas(q, "difficulty") /\ IsDifficultyLevel(DictGet(q, "difficulty"))
        /\ \A i \in 1..Min(Len(AnsweredQuestions), Len(ResultQuestions.v)) :
              LET mq == AnsweredQuestions[i] IN
              (mq.t = "dict" /\ (~DictHas(mq, "correct_answer")
                                 \/ ~IsAnswerLetter(DictGet(mq, "correct_answer"))))
              => DictGet(ResultQuestions.v[i], "correct_answer") = S("A")

\* C4 case: the model's only question has correct_answer "E"; the quiz that
\* comes back keeps the model's question and answers it with "A"
C4_OutOfRangeReplaced ==
    /\ Returned
    /\ response = Render(ModelQuiz(List(<<DictPut(F1, "correct_answer", S("E"))>>), DefaultTopics))
    /\ DictGet(ResultQuestions.v[1], "question") = S("Q1")
    /\ DictGet(ResultQuestions.v[1], "correct_answer") = S("A")

FenceStyles == {"fencejson", "fence"}

\* C5: a code-fenced answer with exactly 2 well-formed questions comes back as a
\* quiz of at least 3 questions: the model's two, in the model's order, then
\* questions of the fallback set in fallback order.
C5_FencedTwoKept ==
    \A a \in WellFormed, b \in WellFormed, st \in FenceStyles :
        (/\ Returned
         /\ modelOutcome = "answered"
         /\ response = Wrap(st, Render(ModelQuiz(List(<<a, b>>), DefaultTopics))))
        => /\ ResultQuestions.t = "list"
           /\ Len(ResultQuestions.v) >= 3
           /\ ResultQuestions.v[1] = a
           /\ ResultQuestions.v[2] = b
           /\ SubSeq(ResultQuestions.v, 3, Len(ResultQuestions.v))
                = Take(DictGet(FallbackQuiz, "questions").v, Len(ResultQuestions.v) - 2)

FallbackQuestionCount == 5

\* C6: when the model call raises, generate_quiz returns exactly the fallback
\* quiz for the given title, with its 5 questions and its related topics, and
\* no exception reaches the caller.
C6_ModelErrorFallback ==
    modelOutcome = "raised" =>
        /\ Returned
        /\ result = FallbackQuiz
        /\ Len(ResultQuestions.v) = FallbackQuestionCount
        /\ ResultTopics = DictGet(FallbackQuiz, "related_topics")

\* C6 case: the model call of the advanced generator raised for title "Python"
C6_ModelRaised ==
    modelOutcome = "raised" /\ pc = "done" /\ gen = "adv" /\ article_title = "Python"

\* no credential, no content, or fewer than 100 characters after trimming
NoCredentialOrShort ==
    \/ api_key = Null
    \/ api_key = S("")
    \/ article_content.kind = "none"
    \/ /\ article_content.kind = "str"
       /\ \/ article_content.lead + article_content.core + article_content.trail = 0
          \/ article_content.core < ContentMinLen

\* C7: without a credential, or with content that is empty or shorter than 100
\* characters after trimming, generate_quiz returns the fallback quiz and the
\* model is never invoked during the call.
C7_NoModelCall ==
    (pc # "idle" /\ NoCredentialOrShort) =>
        /\ modelCalls = 0
        /\ modelOutcome = "none"
        /\ pc = "done"
        /\ Returned
        /\ result = FallbackQuiz

\* C7 case: a credential is configured and the content is 99 characters inside
\* 200 characters of white space
C7_ShortAfterTrim ==
    /\ pc = "done"
    /\ gen = "adv"
    /\ api_key = S("AIza-key")
    /\ article_content = Content("str", ContentMinLen, ContentMinLen - 1, ContentMinLen)
    /\ modelCalls = 0

----------------------------------------------------------------------------
(* Text of a page.  A string is the sequence of its runs of equal           *)
(* characters: "xx[1] " is <<Run("x",2), Run("[",1), Run("1",1),            *)
(* Run("]",1), Run(" ",1)>>.                                                *)

Run(c, n) == [c |-> c, n |-> n]

RECURSIVE TextLen(_)

\* len(text)
TextLen(t) == IF t = <<>> THEN 0 ELSE Head(t).n + TextLen(Tail(t))

RECURSIVE Norm(_)

\* the same string with no empty run and no two neighbouring runs of one character
Norm(t) ==
    IF t = <<>> THEN <<>>
    ELSE IF Head(t).n = 0 THEN Norm(Tail(t))
    ELSE IF Len(t) >= 2 /\ t[2].n = 0 THEN Norm(<<Head(t)>> \o SubSeq(t, 3, Len(t)))
    ELSE IF Len(t) >= 2 /\ t[2].c = Head(t).c
         THEN Norm(<<Run(Head(t).c, Head(t).n + t[2].n)>> \o SubSeq(t, 3, Len(t)))
    ELSE <<Head(t)>> \o Norm(Tail(t))

WhitespaceChars == {" ", "\n", "\t"}

Digits == {"0", "1", "2", "3", "4", "5", "6", "7", "8", "9"}

\* the places of s that hold no white space; s is a text or a sequence of characters
InkPlaces(s, IsSpace(_)) == {i \in 1..Len(s) : ~IsSpace(s[i])}

\* str.strip()
StripWith(s, IsSpace(_)) ==
    IF InkPlaces(s, IsSpace) = {} THEN <<>>
    ELSE SubSeq(s, CHOOSE i \in InkPlaces(s, IsSpace) : \A j \in InkPlaces(s, IsSpace) : i <= j,
                   CHOOSE i \in InkPlaces(s, IsSpace) : \A j \in InkPlaces(s, IsSpace) : i >= j)

\* text.strip() of a text
text_strip(t) == StripWith(t, LAMBDA r : r.c \in WhitespaceChars)

RECURSIVE TakeChars(_, _)

\* text[:n]
TakeChars(t, n) ==
    IF t = <<>> \/ n <= 0 THEN <<>>
    ELSE IF Head(t).n <= n THEN <<Head(t)>> \o TakeChars(Tail(t), n - Head(t).n)
    ELSE <<Run(Head(t).c, n)>>

RECURSIVE DigitsEnd(_, _)

\* the first run at or after run i that holds no digits
DigitsEnd(t, i) == IF i <= Len(t) /\ t[i].c \in Digits THEN DigitsEnd(t, i + 1) ELSE i

\* the pattern \[\d+\] matches at the last "[" of run i and ends in run k
CitationAt(t, i, k) == t[i].c = "[" /\ k > i + 1 /\ k <= Len(t) /\ t[k].c = "]"

RECURSIVE SubCitations(_, _)

\* re.sub(r'\[\d+\]', '', text) from run i on: matches are taken from left to
\* right and what a removal leaves behind is not read again
SubCitations(t, i) ==
    IF i > Len(t) THEN <<>>
    ELSE IF CitationAt(t, i, DigitsEnd(t, i + 1))
         THEN <<Run("[", t[i].n - 1)>>
              \o SubCitations([t EXCEPT ![DigitsEnd(t, i + 1)].n = @ - 1], DigitsEnd(t, i + 1))
    ELSE <<t[i]>> \o SubCitations(t, i + 1)

\* re.sub(r'\[\d+\]', '', text), scraper.py lines 58 and 71
strip_citations(t) == Norm(SubCitations(t, 1))

RECURSIVE JoinSpace(_)

\* ' '.join(texts)
JoinSpace(ts) ==
    IF ts = <<>> THEN <<>>
    ELSE IF Len(ts) = 1 THEN ts[1]
    ELSE ts[1] \o <<Run(" ", 1)>> \o JoinSpace(Tail(ts))

\* [p.get_text().strip() for p in paragraphs]
StrippedTexts(ps) == [i \in 1..Len(ps) |-> text_strip(ps[i].text)]

\* ' '.join([p.get_text().strip() for p in paragraphs if p.get_text().strip()])
paragraph_texts(ps) == Norm(JoinSpace(SelectSeq(StrippedTexts(ps), LAMBDA x : x # <<>>)))

----------------------------------------------------------------------------
(* The page: elements inside div#mw-content-text, each a paragraph or a     *)
(* table or div that holds one paragraph; the h2/h3 headings; the h1 title  *)

Element(name, class, text) == [name |-> name, class |-> class, text |-> text]

NoTitle == <<"<none>">>

Document(content, elements, headings, title) ==
    [content |-> content, elements |-> elements, headings |-> headings, title |-> title]

SummaryParagraphs == 3

SummaryLimit == 1000

FullContentLimit == 8000

SectionLimit == 10

\* the names handed to find_all before decompose(), scraper.py line 66
RemovedNames == {"table", "div.navbox", "div.reflist"}

\* letters in the order of the alphabet
UpperLetters == <<"A", "B", "C", "D", "E", "F", "G", "H", "I", "J", "K", "L", "M", "N", "O", "P", "Q", "R", "S", "T", "U", "V", "W", "X", "Y", "Z">>

LowerLetters == <<"a", "b", "c", "d", "e", "f", "g", "h", "i", "j", "k", "l", "m", "n", "o", "p", "q", "r", "s", "t", "u", "v", "w", "x", "y", "z">>

\* str.lower() of one character
LowerChar(c) ==
    IF \E i \in 1..Len(UpperLetters) : UpperLetters[i] = c
    THEN LowerLetters[CHOOSE i \in 1..Len(UpperLetters) : UpperLetters[i] = c]
    ELSE c

\* str.lower()
Lower(s) == [i \in 1..Len(s) |-> LowerChar(s[i])]

\* str.strip() of a sequence of characters
chars_strip(s) == StripWith(s, LAMBDA c : c \in WhitespaceChars)

\* needle in hay
Contains(hay, needle) ==
    \E i \in 1..(Len(hay) - Len(needle) + 1) : SubSeq(hay, i, i + Len(needle) - 1) = needle

\* skip_sections, scraper.py line 79
skip_sections ==
    { <<"c", "o", "n", "t", "e", "n", "t", "s">>,
      <<"r", "e", "f", "e", "r", "e", "n", "c", "e", "s">>,
      <<"e", "x", "t", "e", "r", "n", "a", "l", " ", "l", "i", "n", "k", "s">>,
      <<"s", "e", "e", " ", "a", "l", "s", "o">>,
      <<"n", "o", "t", "e", "s">> }

UnknownTitle == <<"U", "n", "k", "n", "o", "w", "n", " ", "T", "i", "t", "l", "e">>

\* WikipediaScraper._extract_title
extract_title(doc) == IF doc.title = NoTitle THEN UnknownTitle ELSE chars_strip(doc.title)

\* variant: the cut is made before the citation markers are taken out
extract_summary_cut_first(doc) ==
    IF ~doc.content THEN <<>>
    ELSE strip_citations(TakeChars(paragraph_texts(Take(doc.elements, SummaryParagraphs)),
                                   SummaryLimit))

\* WikipediaScraper._extract_summary
extract_summary(doc) ==
    IF ~doc.content THEN <<>>
    ELSE TakeChars(strip_citations(paragraph_texts(Take(doc.elements, SummaryParagraphs))),
                   SummaryLimit)

\* what is left of the content after decompose() of the elements found
AfterDecompose(doc) == SelectSeq(doc.elements, LAMBDA e : e.name \notin RemovedNames)

\* WikipediaScraper._extract_full_content
extract_full_content(doc) ==
    IF ~doc.content THEN <<>>
    ELSE TakeChars(strip_citations(paragraph_texts(AfterDecompose(doc))), FullContentLimit)

\* the heading is kept: none of skip_sections is in its lowered, stripped text
KeptHeading(h) == \A skip \in skip_sections : ~Contains(Lower(chars_strip(h)), skip)

\* variant: the list of headings is cut to 10 before the headings are filtered
extract_sections_cut_first(doc) ==
    [i \in 1..Len(SelectSeq(Take(doc.headings, SectionLimit), KeptHeading))
        |-> chars_strip(SelectSeq(Take(doc.headings, SectionLimit), KeptHeading)[i])]

\* WikipediaScraper._extract_sections
extract_sections(doc) ==
    Take([i \in 1..Len(SelectSeq(doc.headings, KeptHeading))
             |-> chars_strip(SelectSeq(doc.headings, KeptHeading)[i])],
         SectionLimit)

\* the record scrape_article returns, scraper.py lines 26-37
ArticleRecord(doc) ==
    [ title        |-> extract_title(doc),
      summary      |-> extract_summary(doc),
      sections     |-> extract_sections(doc),
      key_entities |-> [people |-> <<>>, organizations |-> <<>>, locations |-> <<>>],
      full_content |-> extract_full_content(doc) ]

----------------------------------------------------------------------------
(* URL validation.  A URL is the sequence of its characters. *)

\* the pattern read from position i: a literal
MatchLiteral(s, i, lit) ==
    IF i # 0 /\ i + Len(lit) - 1 <= Len(s) /\ SubSeq(s, i, i + Len(lit) - 1) = lit
    THEN i + Len(lit) ELSE 0

\* [a-z]{2}
MatchLowerPair(s, i) ==
    IF i # 0 /\ i + 1 <= Len(s)
       /\ \A j \in {i, i + 1} : \E l \in 1..Len(LowerLetters) : LowerLetters[l] = s[j]
    THEN i + 2 ELSE 0

\* $ without re.MULTILINE: the end of the string, or just before a newline that ends it
AtEnd(s, k) == k = Len(s) + 1 \/ (k = Len(s) /\ s[k] = "\n")

\* [^/]+$
MatchSegmentToEnd(s, i) ==
    /\ i # 0
    /\ \E k \in (i + 1)..(Len(s) + 1) :
          /\ \A j \in i..(k - 1) : s[j] # "/"
          /\ AtEnd(s, k)

\* variant: [^/]+ with no $ after it
MatchSegment(s, i) == i # 0 /\ i <= Len(s) /\ s[i] # "/"

PatternScheme == <<"h", "t", "t", "p", "s", ":", "/", "/">>

PatternHost == <<".", "w", "i", "k", "i", "p", "e", "d", "i", "a", ".", "o", "r", "g", "/", "w", "i", "k", "i", "/">>

\* variant of _is_valid_wikipedia_url: the pattern without its closing $
is_valid_wikipedia_url_open(u) ==
    IF u.kind # "str" THEN Raise("TypeError")
    ELSE [t |-> "bool",
          v |-> MatchSegment(u.chars,
                    MatchLiteral(u.chars,
                        MatchLowerPair(u.chars, MatchLiteral(u.chars, 1, PatternScheme)),
                        PatternHost))]

\* WikipediaScraper._is_valid_wikipedia_url: re.match of
\* ^https://[a-z]{2}\.wikipedia\.org/wiki/[^/]+$
is_valid_wikipedia_url(u) ==
    IF u.kind # "str" THEN Raise("TypeError")
    ELSE [t |-> "bool",
          v |-> MatchSegmentToEnd(u.chars,
                    MatchLiteral(u.chars,
                        MatchLowerPair(u.chars, MatchLiteral(u.chars, 1, PatternScheme)),
                        PatternHost))]

----------------------------------------------------------------------------
(* Pages and URLs the scraper may meet *)

MaxElements == 4

MaxHeadings == 12

TextShort == <<Run(" ", 1), Run("x", 3), Run("\n", 1)>>

TextBlank == <<Run(" ", 2), Run("\n", 1)>>

\* "xx[12] yy[3]"
TextCited ==
    <<Run("x", 2), Run("[", 1), Run("1", 1), Run("2", 1), Run("]", 1), Run(" ", 1),
      Run("y", 2), Run("[", 1), Run("3", 1), Run("]", 1)>>

TextLong == <<Run("x", 600)>>

\* 998 letters, "[12]", 5 letters: the marker lies across the 1000th character
TextEdge ==
    <<Run("x", SummaryLimit - 2), Run("[", 1), Run("1", 1), Run("2", 1), Run("]", 1), Run("y", 5)>>

\* more than 8000 characters with a marker across the 8000th
TextHuge ==
    <<Run("z", FullContentLimit - 2), Run("[", 1), Run("7", 1), Run("]", 1), Run("w", 100)>>

\* "a[1[2]]b"
TextNested ==
    <<Run("a", 1), Run("[", 1), Run("1", 1), Run("[", 1), Run("2", 1), Run("]", 2), Run("b", 1)>>

\* "[1]"
TextMarkerOnly == <<Run("[", 1), Run("1", 1), Run("]", 1)>>

\* "[[12]] [] [a] [3"
TextBrackets ==
    <<Run("[", 2), Run("1", 1), Run("2", 1), Run("]", 2), Run(" ", 1), Run("[", 1), Run("]", 1),
      Run(" ", 1), Run("[", 1), Run("a", 1), Run("]", 1), Run(" ", 1), Run("[", 1), Run("3", 1)>>

CoreElements ==
    { Element("p", "", TextShort), Element("p", "", TextCited), Element("p", "", TextLong),
      Element("p", "", TextBlank), Element("table", "infobox", TextLong) }

PlainElements == { Element("p", "", TextShort), Element("p", "", TextLong) }

ProbeElements ==
    { Element("p", "", <<>>), Element("p", "", TextEdge), Element("p", "", TextHuge),
      Element("p", "", TextNested), Element("p", "", TextMarkerOnly),
      Element("p", "", TextBrackets),
      Element("div", "navbox", TextCited), Element("div", "reflist", TextShort),
      Element("table", "wikitable", TextHuge) }

ElementLists ==
    UNION {[1..n -> CoreElements] : n \in 0..MaxElements}
    \cup UNION {{[b EXCEPT ![p] = e] : p \in DOMAIN b, e \in ProbeElements} :
                    b \in UNION {[1..n -> PlainElements] : n \in 1..MaxElements}}

\* the i-th numbered heading: "Part " and i strokes
NumberedHeading(i) == <<"P", "a", "r", "t", " ">> \o [j \in 1..i |-> "I"]

Numbered(k) == [i \in 1..k |-> NumberedHeading(i)]

HeadingSamples ==
    { <<"C", "o", "n", "t", "e", "n", "t", "s">>, <<" ", "R", "e", "f", "e", "r", "e", "n", "c", "e", "s", " ">>, <<"S", "e", "e", " ", "a", "l", "s", "o">>, <<"E", "x", "t", "e", "r", "n", "a", "l", " ", "l", "i", "n", "k", "s">>, <<"N", "O", "T", "E", "S">>, <<"F", "o", "o", "t", "n", "o", "t", "e", "s">>,
      <<"R", "e", "c", "e", "p", "t", "i", "o", "n">>, <<>> }

\* s with x put in after its first p elements (at its end when s is shorter)
InsertAt(s, p, x) == Take(s, p) \o <<x>> \o SubSeq(s, Min(p, Len(s)) + 1, Len(s))

HeadingLists ==
    {Numbered(k) : k \in 0..MaxHeadings}
    \cup {InsertAt(Numbered(k), p, h) : k \in 0..MaxHeadings, p \in {0, MaxHeadings}, h \in HeadingSamples}

PageTitles == { NoTitle, <<"P", "y", "t", "h", "o", "n">>, <<"\n", " ", "P", "y", "t", "h", "o", "n", " ">> }

Documents ==
    {Document(TRUE, els, Numbered(2), <<"P", "y", "t", "h", "o", "n">>) : els \in ElementLists}
    \cup {Document(TRUE, <<Element("p", "", TextShort)>>, hs, <<"P", "y", "t", "h", "o", "n">>) : hs \in HeadingLists}
    \cup {Document(TRUE, <<Element("p", "", TextHuge), Element("p", "", TextEdge)>>,
                    Numbered(k), NoTitle) : k \in 0..MaxHeadings}
    \cup {Document(c, <<Element("p", "", TextCited)>>, Numbered(1), t) :
             c \in BOOLEAN, t \in PageTitles}

StrUrl(chars) == [kind |-> "str", chars |-> chars]

NoneUrl == [kind |-> "none", chars |-> <<>>]

UrlPrefixes == { <<>>, <<" ">> }

UrlSchemes == { <<"h", "t", "t", "p", "s", ":", "/", "/">>, <<"h", "t", "t", "p", ":", "/", "/">>, <<"H", "T", "T", "P", "S", ":", "/", "/">> }

UrlLanguages == { <<"e", "n">>, <<"e">>, <<"e", "n", "g">>, <<"E", "N">>, <<"e", "1">>, <<>> }

UrlHosts == { <<".", "w", "i", "k", "i", "p", "e", "d", "i", "a", ".", "o", "r", "g">>, <<"x", "w", "i", "k", "i", "p", "e", "d", "i", "a", ".", "o", "r", "g">>, <<".", "w", "i", "k", "i", "p", "e", "d", "i", "a", ".", "c", "o", "m">> }

UrlPaths == { <<"/", "w", "i", "k", "i", "/">>, <<"/", "w", "/">>, <<"/", "w", "i", "k", "i">> }

UrlSegments == { <<>>, <<"P", "y">>, <<"P", "y", "/">>, <<"/", "P", "y">>, <<"P", "/", "y">>, <<"P", "y", "\n">>, <<"\n">>, <<"P", "y", "?", "a", "=", "1">> }

Urls ==
    {StrUrl(a \o b \o c \o d \o e \o f) :
        a \in UrlPrefixes, b \in UrlSchemes, c \in UrlLanguages, d \in UrlHosts,
        e \in UrlPaths, f \in UrlSegments}
    \cup {NoneUrl}

FetchErrors == {"ConnectionError", "HTTPError"}

InvalidUrlError == "ValueError: Invalid Wikipedia URL"

NoDocument == Document(FALSE, <<>>, <<>>, NoTitle)

NoRecord == [title |-> <<>>, summary |-> <<>>, sections |-> <<>>,
             key_entities |-> [people |-> <<>>, organizations |-> <<>>, locations |-> <<>>],
             full_content |-> <<>>]

----------------------------------------------------------------------------
(* The scrape_article call *)

ScrapeInit ==
    /\ url = NoneUrl
    /\ spc = "idle"
    /\ httpRequests = 0
    /\ document = NoDocument
    /\ record = NoRecord
    /\ scrapeError = "none"

\* the exception goes through the except clause to the caller, scraper.py lines 39-41
ScrapeRaise(e) ==
    /\ scrapeError' = e
    /\ spc' = "done"

\* scrape_article(u) up to session.get, scraper.py lines 16-21
Scrape_Invoke(u) ==
    /\ spc = "idle"
    /\ url' = u
    /\ IF IsRaise(is_valid_wikipedia_url(u))
       THEN ScrapeRaise(is_valid_wikipedia_url(u).v[1]) /\ UNCHANGED httpRequests
       ELSE IF ~is_valid_wikipedia_url(u).v
       THEN ScrapeRaise(InvalidUrlError) /\ UNCHANGED httpRequests
       ELSE /\ httpRequests' = httpRequests + 1
            /\ spc' = "fetching"
            /\ UNCHANGED scrapeError
    /\ UNCHANGED <<document, record, quizVars, validateVars, handlerVars>>

\* scrape_article up to session.get, scraper.py lines 16-21
Scrape_Call == \E u \in Urls : Scrape_Invoke(u)

\* session.get or raise_for_status raises, scraper.py lines 21-22
Scrape_FetchFails ==
    \E e \in FetchErrors :
        /\ spc = "fetching"
        /\ ScrapeRaise(e)
        /\ UNCHANGED <<url, httpRequests, document, record, quizVars, validateVars, handlerVars>>

\* the page d arrives and the record is built from it, scraper.py lines 21-37
Scrape_Fetched(d) ==
    /\ spc = "fetching"
    /\ document' = d
    /\ record' = ArticleRecord(d)
    /\ spc' = "done"
    /\ UNCHANGED <<url, httpRequests, scrapeError, quizVars, validateVars, handlerVars>>

\* the page arrives and the record is built from it, scraper.py lines 21-37
Scrape_FetchReturns == \E d \in Documents : Scrape_Fetched(d)

----------------------------------------------------------------------------
(* The POST /api/generate_quiz handler, main.py lines 372-418 *)

RECURSIVE JoinChars(_)

\* the str made of a sequence of characters
JoinChars(s) == IF s = <<>> THEN "" ELSE Head(s) \o JoinChars(Tail(s))

\* the places of the runs of t that hold no white space
InkRuns(t) == {i \in 1..Len(t) : t[i].c \notin WhitespaceChars}

\* a text of the scraper as the article_content argument of generate_quiz
ContentOfText(t) ==
    IF InkRuns(t) = {} THEN Content("str", TextLen(t), 0, 0)
    ELSE Content("str",
                 TextLen(SubSeq(t, 1, (CHOOSE i \in InkRuns(t) : \A j \in InkRuns(t) : i <= j) - 1)),
                 TextLen(text_strip(t)),
                 TextLen(SubSeq(t, (CHOOSE i \in InkRuns(t) : \A j \in InkRuns(t) : i >= j) + 1,
                                Len(t))))

\* Quiz(url=..., title=..., summary=..., key_entities=..., sections=..., quiz_data=...),
\* main.py lines 392-399
QuizRow(u, rec, quiz_data) ==
    [ url |-> u, title |-> rec.title, summary |-> rec.summary,
      key_entities |-> rec.key_entities, sections |-> rec.sections, quiz_data |-> quiz_data ]

\* variant: the handler goes on when scrape_article has ended, also by an exception
scrape_ended(sp, err) == sp = "done"

\* scraper.scrape_article(request.url) has returned article_data, main.py line 383
scrape_returned(sp, err) == sp = "done" /\ err = "none"

ArticleUrl == PatternScheme \o <<"e", "n">> \o PatternHost \o <<"P", "y">>

\* the URLs of the requests: an article URL, and two that are none
HandlerUrls ==
    { StrUrl(ArticleUrl), StrUrl(ArticleUrl \o <<"/">>),
      StrUrl(<<"h", "t", "t", "p", ":", "/", "/", "e", "n">> \o PatternHost \o <<"P", "y">>) }

\* the pages of the requests: long, cited, short and missing content, with and without title
HandlerDocuments ==
    { Document(TRUE, <<Element("p", "", TextLong), Element("p", "", TextCited)>>, Numbered(2),
               <<"P", "y", "t", "h", "o", "n">>),
      Document(TRUE, <<Element("p", "", TextHuge)>>, <<>>,
               <<"\n", " ", "P", "y", "t", "h", "o", "n", " ">>),
      Document(TRUE, <<Element("p", "", TextShort)>>, Numbered(1), NoTitle),
      Document(FALSE, <<Element("p", "", TextLong)>>, Numbered(1), <<"P", "y", "t", "h", "o", "n">>) }

\* what the model may answer to the requests: quizzes of up to two questions
\* and short texts that hold no JSON value
HandlerResponses ==
    {Wrap(style, Render(ModelQuiz(List(l), rt))) :
        style \in WrapStyles, l \in {x \in BaseLists \cup FlatLists : Len(x) <= 2},
        rt \in {DefaultTopics, Num("7")}}
    \cup {t \in GarbageTexts : Len(t) <= 4}

HandlerInit ==
    /\ hpc = "extract"
    /\ quizzes = <<>>
    /\ commitRaised = FALSE
    /\ status_code = 0

\* the except clause of the handler: HTTPException(status_code=500), main.py lines 416-418
Handler_Fail ==
    /\ hpc' = "done"
    /\ status_code' = 500

\* scraper.scrape_article(request.url) is called, main.py lines 375-383
Handler_Scrape == \E u \in HandlerUrls : hpc = "extract" /\ Scrape_Invoke(u)

\* the page of the request arrives, main.py line 383
Handler_FetchReturns == \E d \in HandlerDocuments : hpc = "extract" /\ Scrape_Fetched(d)

\* scrape_article raised: the request ends in the except clause, main.py lines 383 and 416-418
Handler_ScrapeRaised ==
    /\ hpc = "extract"
    /\ spc = "done"
    /\ scrapeError # "none"
    /\ Handler_Fail
    /\ UNCHANGED <<quizzes, commitRaised, quizVars, scrapeVars, validateVars>>

\* quiz_gen.generate_quiz(article_data["full_content"], article_data["title"]) is
\* called, main.py lines 380 and 384-387
Handler_Generate ==
    \E key \in ApiKeys :
        /\ hpc = "extract"
        /\ scrape_returned(spc, scrapeError)
        /\ Adv_Invoke(key, ContentOfText(record.full_content), JoinChars(record.title))
        /\ hpc' = "generate"
        /\ UNCHANGED <<quizzes, commitRaised, status_code>>

\* the model answers the call the handler made, main.py line 387
Handler_ModelResponds == \E text \in HandlerResponses : hpc = "generate" /\ Adv_Answered(text)

\* generate_quiz has ended: the log line, the row, db.commit() (which stores
\* the row or raises) and the response, main.py lines 387-418
Handler_Persist ==
    /\ hpc = "generate"
    /\ pc = "done"
    /\ IF outcome = "raised" \/ IsRaise(Adv_log_count(result))
       THEN Handler_Fail /\ UNCHANGED <<quizzes, commitRaised>>
       ELSE \E stored \in BOOLEAN :
               IF stored
               THEN /\ quizzes' = Append(quizzes, QuizRow(url, record, result))
                    /\ hpc' = "done"
                    /\ status_code' = 200
                    /\ UNCHANGED commitRaised
               ELSE /\ commitRaised' = TRUE
                    /\ Handler_Fail
                    /\ UNCHANGED quizzes
    /\ UNCHANGED <<quizVars, scrapeVars, validateVars>>

----------------------------------------------------------------------------
(* Validation applied to a quiz object, and applied again to its result *)

\* structurally valid quizzes whose question or explanation is white space only
BlankTextQuizzes ==
    { ModelQuiz(List(<<DictPut(W1, "question", S(" ")), W2, W1>>), DefaultTopics),
      ModelQuiz(List(<<W1, DictPut(W2, "explanation", S("\n")), W1>>), DefaultTopics) }

ValidateInputs == ModelValues \cup BlankTextQuizzes

Generators == {"adv", "qg"}

\* the validation of generator g
Validate(g, q, title) ==
    IF g = "adv" THEN validate_quiz_structure(q, title) ELSE validate_quiz_data(q)

ValidateInit ==
    /\ vgen = "none"
    /\ vpc = "idle"
    /\ vtitle = ""
    /\ vinput = Null
    /\ vonce = Null
    /\ vtwice = Null

\* _validate_quiz_structure / _validate_quiz_data on a quiz object
Validate_Once ==
    \E g \in Generators, q \in ValidateInputs, title \in Titles :
        /\ vpc = "idle"
        /\ vgen' = g
        /\ vtitle' = title
        /\ vinput' = q
        /\ vonce' = Validate(g, q, title)
        /\ vpc' = "once"
        /\ UNCHANGED <<vtwice, quizVars, scrapeVars, handlerVars>>

\* AdvancedQuizGenerator._parse_quiz_data on the JSON text of a value, main.py lines 238-257
Parse_Once ==
    \E q \in ValidateInputs, title \in Titles :
        /\ vpc = "idle"
        /\ vgen' = "adv"
        /\ vtitle' = title
        /\ vinput' = q
        /\ vonce' = parse_quiz_data(Render(q), title)
        /\ vpc' = "parsed"
        /\ UNCHANGED <<vtwice, quizVars, scrapeVars, handlerVars>>

\* the same validation on what the first one returned
Validate_Twice ==
    /\ vpc = "once"
    /\ ~IsRaise(vonce)
    /\ vtwice' = Validate(vgen, vonce, vtitle)
    /\ vpc' = "twice"
    /\ UNCHANGED <<vgen, vtitle, vinput, vonce, quizVars, scrapeVars, handlerVars>>

----------------------------------------------------------------------------
(* Properties of validation *)

IsNonEmptyStr(x) == x.t = "str" /\ PyLen(x) > 0

\* q has all five members, each of the kind the Question invariant names
IsValidQuestion(q) ==
    /\ q.t = "dict"
    /\ DictHas(q, "question") /\ IsNonEmptyStr(DictGet(q, "question"))
    /\ DictHas(q, "options") /\ IsOptionsMapping(DictGet(q, "options"))
    /\ DictHas(q, "correct_answer") /\ IsAnswerLetter(DictGet(q, "correct_answer"))
    /\ DictHas(q, "explanation") /\ IsNonEmptyStr(DictGet(q, "explanation"))
    /\ DictHas(q, "difficulty") /\ IsDifficultyLevel(DictGet(q, "difficulty"))

\* the structural invariants of a quiz: at least 3 valid questions and at least
\* 1 related topic, each a string
SatisfiesInvariants(quiz) ==
    /\ quiz.t = "dict"
    /\ DictHas(quiz, "questions")
    /\ DictGet(quiz, "questions").t = "list"
    /\ Len(DictGet(quiz, "questions").v) >= 3
    /\ \A i \in 1..Len(DictGet(quiz, "questions").v) :
          IsValidQuestion(DictGet(quiz, "questions").v[i])
    /\ DictHas(quiz, "related_topics")
    /\ DictGet(quiz, "related_topics").t = "list"
    /\ Len(DictGet(quiz, "related_topics").v) >= 1
    /\ \A i \in 1..Len(DictGet(quiz, "related_topics").v) :
          DictGet(quiz, "related_topics").v[i].t = "str"

\* the characters of x are not all white space
HasInk(x) == \E i \in 1..Len(x.v) : x.v[i] \notin {"", " ", "\n", "\t"}

\* every question and explanation of the valid quiz holds more than white space
TextsHaveInk(quiz) ==
    \A i \in 1..Len(DictGet(quiz, "questions").v) :
        /\ HasInk(DictGet(DictGet(quiz, "questions").v[i], "question"))
        /\ HasInk(DictGet(DictGet(quiz, "questions").v[i], "explanation"))

\* validation ran twice and the second run changed nothing
SecondRunChangesNothing == vpc = "twice" => vtwice = vonce

\* C8 as stated: validate(validate(q)) = validate(q) wherever validation
\* returns, and validate(q) = q for every q that satisfies the structural
\* invariants.
C8_IdempotentNoOp ==
    /\ SecondRunChangesNothing
    /\ (vpc # "idle" /\ SatisfiesInvariants(vinput)) => vonce = vinput

\* C8 (amended): validate(validate(q)) = validate(q) wherever validation
\* returns, and validate(q) = q for every q that satisfies the structural
\* invariants and whose question and explanation texts are not white space only.
C8_IdempotentNoOpOnInk ==
    /\ SecondRunChangesNothing
    /\ (vpc # "idle" /\ SatisfiesInvariants(vinput) /\ TextsHaveInk(vinput)) => vonce = vinput

\* C8 case: the advanced generator's validation ran twice on a quiz that needed
\* repair, and once on a valid quiz, which it returned as it was
C8_RepairedThenStable ==
    /\ vpc = "twice"
    /\ vgen = "adv"
    /\ ~IsRaise(vonce)
    /\ vonce # vinput
    /\ SatisfiesInvariants(vonce)

\* the repair of a parsed model object has returned: _parse_quiz_data of the
\* advanced generator, _validate_quiz_data of the other one
RepairReturned ==
    /\ \/ vgen = "adv" /\ vpc = "parsed"
       \/ vgen = "qg" /\ vpc = "once"
    /\ vinput.t = "dict"
    /\ ~IsRaise(vonce)

\* the value of member k of question q is valid
IsValidField(q, k) ==
    /\ q.t = "dict"
    /\ DictHas(q, k)
    /\ CASE k = "question"       -> DictGet(q, k).t = "str" /\ HasInk(DictGet(q, k))
         [] k = "options"        -> IsOptionsMapping(DictGet(q, k))
         [] k = "correct_answer" -> IsAnswerLetter(DictGet(q, k))
         [] k = "explanation"    -> DictGet(q, k).t = "str" /\ HasInk(DictGet(q, k))
         [] k = "difficulty"     -> IsDifficultyLevel(DictGet(q, k))

QuestionFields == {"question", "options", "correct_answer", "explanation", "difficulty"}

\* the questions of the parsed model object, when they are a list
InputQuestions ==
    IF DictHas(vinput, "questions") /\ DictGet(vinput, "questions").t = "list"
    THEN DictGet(vinput, "questions").v ELSE <<>>

\* the parsed model object has a non-empty list of related topics
HasTopicsList ==
    /\ DictHas(vinput, "related_topics")
    /\ DictGet(vinput, "related_topics").t = "list"
    /\ Len(DictGet(vinput, "related_topics").v) > 0

\* C17: repair changes only what is invalid: in what _parse_quiz_data and
\* _validate_quiz_data return for a parsed model object, every question field
\* that was valid and a non-empty related_topics list are as the model gave
\* them, whatever the other fields are like, also when questions is missing or
\* empty and the fallback questions stand in.
C17_RepairKeepsValid ==
    RepairReturned =>
        /\ vonce.t = "dict"
        /\ HasTopicsList =>
              /\ DictHas(vonce, "related_topics")
              /\ DictGet(vonce, "related_topics") = DictGet(vinput, "related_topics")
        /\ \A i \in 1..Len(InputQuestions), k \in QuestionFields :
              IsValidField(InputQuestions[i], k) =>
                  /\ DictHas(vonce, "questions")
                  /\ DictGet(vonce, "questions").t = "list"
                  /\ Len(DictGet(vonce, "questions").v) >= i
                  /\ DictGet(vonce, "questions").v[i].t = "dict"
                  /\ DictHas(DictGet(vonce, "questions").v[i], k)
                  /\ DictGet(DictGet(vonce, "questions").v[i], k) = DictGet(InputQuestions[i], k)

----------------------------------------------------------------------------
(* Properties of scrape_article *)

LowercaseSet == {LowerLetters[i] : i \in 1..Len(LowerLetters)}

\* u is https://, two lowercase letters, .wikipedia.org/wiki/ and one non-empty
\* segment without "/", and nothing else
IsArticleUrl(u) ==
    \E n \in 1..Len(u) :
        /\ Len(u) = Len(PatternScheme) + 2 + Len(PatternHost) + n
        /\ SubSeq(u, 1, Len(PatternScheme)) = PatternScheme
        /\ u[Len(PatternScheme) + 1] \in LowercaseSet
        /\ u[Len(PatternScheme) + 2] \in LowercaseSet
        /\ SubSeq(u, Len(PatternScheme) + 3, Len(u) - n) = PatternHost
        /\ \A j \in (Len(u) - n + 1)..Len(u) : u[j] # "/"

\* C9: for a URL string, scrape_article fails with the invalid-URL error
\* exactly when the string is not as a whole of the article form, and then no
\* HTTP request is issued; a request is issued only for a URL of that form.
C9_InvalidUrlExactly ==
    /\ (spc # "idle" /\ url.kind = "str") =>
          /\ (scrapeError = InvalidUrlError) <=> ~IsArticleUrl(url.chars)
          /\ ~IsArticleUrl(url.chars) => (spc = "done" /\ httpRequests = 0)
    /\ httpRequests > 0 => (url.kind = "str" /\ IsArticleUrl(url.chars))

\* C9 case: a URL with a slash after its segment was refused without a request
C9_TrailingSlashRefused ==
    /\ spc = "done"
    /\ url.kind = "str"
    /\ Len(url.chars) > 0
    /\ url.chars[Len(url.chars)] = "/"
    /\ MatchLiteral(url.chars, MatchLowerPair(url.chars, MatchLiteral(url.chars, 1, PatternScheme)),
                    PatternHost) # 0
    /\ scrapeError = InvalidUrlError
    /\ httpRequests = 0

\* s is the first n characters of j, or all of j when j is not longer than n
IsHardCut(s, j, n) ==
    /\ TextLen(s) = (IF TextLen(j) < n THEN TextLen(j) ELSE n)
    /\ Len(s) <= Len(j)
    /\ \A k \in 1..Len(s) :
          /\ s[k].c = j[k].c
          /\ IF k < Len(s) THEN s[k].n = j[k].n ELSE s[k].n <= j[k].n

RECURSIVE JoinedStripped(_)

\* the texts of the non-blank paragraphs among ps, each trimmed and without its
\* citation markers, with one space between neighbours
JoinedStripped(ps) ==
    IF ps = <<>> THEN <<>>
    ELSE IF text_strip(Head(ps).text) = <<>> THEN JoinedStripped(Tail(ps))
    ELSE IF \A i \in 1..Len(Tail(ps)) : text_strip(Tail(ps)[i].text) = <<>>
         THEN strip_citations(text_strip(Head(ps).text))
    ELSE Norm(strip_citations(text_strip(Head(ps).text)) \o <<Run(" ", 1)>>
              \o JoinedStripped(Tail(ps)))

\* the paragraphs the summary is made of
SummarySource(doc) == IF doc.content THEN Take(doc.elements, SummaryParagraphs) ELSE <<>>

\* the paragraphs the full content is made of
FullContentSource(doc) == IF doc.content THEN AfterDecompose(doc) ELSE <<>>

\* C10: a returned record has at most 1000 characters of summary, at most 8000
\* of full_content and at most 10 sections, and summary and full_content are
\* exactly the first 1000 and 8000 characters of the joined paragraph text
\* without citation markers, cut wherever that falls.
C10_HardCuts ==
    (spc = "done" /\ scrapeError = "none") =>
        /\ TextLen(record.summary) <= SummaryLimit
        /\ TextLen(record.full_content) <= FullContentLimit
        /\ Len(record.sections) <= SectionLimit
        /\ IsHardCut(record.summary, JoinedStripped(SummarySource(document)), SummaryLimit)
        /\ IsHardCut(record.full_content, JoinedStripped(FullContentSource(document)),
                     FullContentLimit)

\* C10 case: a page whose paragraph text is longer than both limits and that
\* has more than 10 headings to keep
C10_CutInsideText ==
    /\ spc = "done"
    /\ scrapeError = "none"
    /\ Len(SelectSeq(document.headings, KeptHeading)) > SectionLimit
    /\ Len(record.sections) = SectionLimit
    /\ TextLen(JoinedStripped(SummarySource(document))) > SummaryLimit
    /\ TextLen(JoinedStripped(FullContentSource(document))) > FullContentLimit
    /\ TextLen(record.summary) = SummaryLimit
    /\ TextLen(record.full_content) = FullContentLimit

\* the lower-cased text of heading h holds one of the excluded words
IsExcludedHeading(h) == \E skip \in skip_sections : Contains(Lower(h), skip)

\* the places of the headings of doc that are not excluded
SurvivingPlaces(doc) == {i \in 1..Len(doc.headings) : ~IsExcludedHeading(doc.headings[i])}

\* the place of the j-th surviving heading of doc
SurvivingPlace(doc, j) ==
    CHOOSE i \in SurvivingPlaces(doc) : Cardinality({k \in SurvivingPlaces(doc) : k <= i}) = j

\* C11: the sections of a returned record are the first 10, in document order,
\* of the heading texts left after every heading whose lower-cased text holds
\* "contents", "references", "external links", "see also" or "notes" is taken
\* out; excluded headings use none of the 10 places, and no section holds an
\* excluded word in any letter case.
C11_SectionsFilteredThenCut ==
    (spc = "done" /\ scrapeError = "none") =>
        /\ Len(record.sections) = Min(Cardinality(SurvivingPlaces(document)), SectionLimit)
        /\ \A j \in 1..Len(record.sections) :
              /\ record.sections[j] = chars_strip(document.headings[SurvivingPlace(document, j)])
              /\ ~IsExcludedHeading(record.sections[j])

\* C11 case: the page starts with an excluded heading and has more than 10
\* others; the 10th section is the 11th heading of the page
C11_ExcludedUsesNoPlace ==
    /\ spc = "done"
    /\ scrapeError = "none"
    /\ Len(document.headings) > SectionLimit + 1
    /\ IsExcludedHeading(document.headings[1])
    /\ Len(record.sections) = SectionLimit
    /\ record.sections[SectionLimit] = document.headings[SectionLimit + 1]

\* the text holds "[", one or more digits and "]" in a row
HasCitationMarker(t) ==
    \E i \in 1..Len(t), k \in 1..Len(t) :
        /\ t[i].c = "[" /\ t[i].n > 0
        /\ k > i + 1
        /\ \A j \in (i + 1)..(k - 1) : t[j].c \in Digits /\ t[j].n > 0
        /\ t[k].c = "]" /\ t[k].n > 0

\* C12: the summary and the full_content of a returned record hold no citation
\* marker, that is no "[", one or more digits, "]" in a row, also where the
\* paragraph text nests such sequences as in "[1[2]]".
C12_NoCitationMarker ==
    (spc = "done" /\ scrapeError = "none") =>
        /\ ~HasCitationMarker(record.summary)
        /\ ~HasCitationMarker(record.full_content)

\* a credential is configured and the trimmed content has at least 100 characters
CredentialAndContent ==
    /\ Truthy(api_key)
    /\ article_content.kind = "str"
    /\ article_content.core >= ContentMinLen

\* C15: with a credential and at least 100 characters of trimmed content,
\* generate_quiz of either generator builds the prompt and invokes the model
\* exactly once in the call; in every call the model is invoked at most once.
C15_ModelInvokedOnce ==
    /\ modelCalls <= 1
    /\ (pc = "done" /\ CredentialAndContent) => (modelCalls = 1 /\ modelOutcome # "none")

\* the element is a table, a navigation box or a reference list
IsBoxElement(e) ==
    \/ e.name = "table"
    \/ e.name = "div" /\ e.class \in {"navbox", "reflist"}

\* the paragraphs of the page that lie in the main content container and in
\* no table, navigation box or reference list
MainParagraphs(doc) ==
    IF doc.content THEN SelectSeq(doc.elements, LAMBDA e : ~IsBoxElement(e)) ELSE <<>>

\* C16: full_content is made only of the text of paragraphs inside the main
\* content container and outside every table, navigation box (div of class
\* navbox) and reference list (div of class reflist); a page without the main
\* content container gives an empty summary and full_content and no error.
C16_OnlyMainParagraphs ==
    (spc = "done" /\ document # NoDocument) =>
        /\ scrapeError = "none"
        /\ IsHardCut(record.full_content, JoinedStripped(MainParagraphs(document)),
                     FullContentLimit)
        /\ ~document.content => (record.summary = <<>> /\ record.full_content = <<>>)

----------------------------------------------------------------------------
(* Properties of response cleaning *)

\* well-formed quiz objects: every question carries its nested options object
WellFormedQuizzes ==
    {ModelQuiz(List(l), rt) : l \in BaseLists,
                              rt \in {DefaultTopics, List(<< S("Topic1"), S("Topic2") >>)}}

\* the cleaning step of generator g
Clean(g, text) == IF g = "adv" THEN clean_ai_response(text) ELSE clean_response(text)

\* C14: for a text made of one well-formed quiz object, bare, inside code
\* fences or between brace-free prose, the cleaning step of either generator
\* returns exactly the text of that object, and parsing what it returns gives
\* the model's full question list.
C14_CleaningRecoversObject ==
    \A x \in WellFormedQuizzes, style \in WrapStyles, g \in Generators :
        (modelOutcome = "answered" /\ response = Wrap(style, Render(x)))
        => /\ Clean(g, response) = Render(x)
           /\ json_loads(Clean(g, response)) = x

----------------------------------------------------------------------------
(* Properties of the /api/generate_quiz handler *)

\* the request has failed
RequestFailed == status_code = 500

\* extract, then generate, then persist: the generator and the model run only
\* after scrape_article has returned, nothing runs or is stored after a failed
\* extraction, and a row is stored only with the quiz that generation has returned
StepsInOrder ==
    /\ (pc # "idle" \/ modelCalls > 0) => (spc = "done" /\ scrapeError = "none")
    /\ scrapeError # "none" => (pc = "idle" /\ modelCalls = 0 /\ quizzes = <<>>)
    /\ quizzes # <<>> => /\ pc = "done"
                         /\ outcome = "returned"
                         /\ Len(quizzes) = 1
                         /\ quizzes[1].quiz_data = result
                         /\ quizzes[1].title = record.title

\* C13 as stated: the handler extracts, then generates, then persists; the
\* generator and the model are never invoked and nothing is stored when
\* extraction fails, a row is stored only after generation has returned, and
\* the request fails only when extraction fails.
C13_ExtractGeneratePersist ==
    /\ StepsInOrder
    /\ RequestFailed => scrapeError # "none"

\* C13 (amended): the same order of steps, and the request fails only when
\* extraction fails or when storing the row fails, never because of quiz
\* generation.
C13_FailsOnlyOutsideGeneration ==
    /\ StepsInOrder
    /\ RequestFailed => (scrapeError # "none" \/ commitRaised)
    /\ (hpc = "done" /\ ~RequestFailed) => (status_code = 200 /\ Len(quizzes) = 1)

\* C13 case: the page was extracted, the model call raised, the fallback quiz
\* for the page's title was stored and the request succeeded
C13_StoredAfterModelError ==
    /\ hpc = "done"
    /\ status_code = 200
    /\ modelOutcome = "raised"
    /\ Len(quizzes) = 1
    /\ quizzes[1].quiz_data = generate_smart_fallback_quiz("Python")
    /\ quizzes[1].url = StrUrl(ArticleUrl)

----------------------------------------------------------------------------
(* Specifications *)

Init == QuizInit /\ ScrapeInit /\ ValidateInit /\ HandlerInit

Next == Adv_Call \/ Adv_ModelRaises \/ Adv_ModelResponds \/ QG_Call

\* the generate_quiz calls
Spec == Init /\ [][Next]_vars

ScrapeNext == Scrape_Call \/ Scrape_FetchFails \/ Scrape_FetchReturns

\* the scrape_article call
SpecScrape == Init /\ [][ScrapeNext]_vars

ValidateNext == Validate_Once \/ Validate_Twice \/ Parse_Once

\* validation and re-validation
SpecValidate == Init /\ [][ValidateNext]_vars

HandlerNext ==
    \/ Handler_Scrape
    \/ Scrape_FetchFails
    \/ Handler_FetchReturns
    \/ Handler_ScrapeRaised
    \/ Handler_Generate
    \/ Adv_ModelRaises
    \/ Handler_ModelResponds
    \/ Handler_Persist

\* one request to POST /api/generate_quiz
SpecHandler == Init /\ [][HandlerNext]_vars

====
